---------------------------- MODULE Spec2Model ----------------------------
(***************************************************************************)
(* Model of src/index.js (teachablemachine-node): the model-loading state  *)
(* of a SashiDoTeachableMachine instance, the retry gate around classify,  *)
(* the image ingestion steps of inference and the ranking of the scores.   *)
(*                                                                         *)
(* Strings the code inspects (URLs, content types) are sequences of        *)
(* tokens; a regular expression or prefix test is a test on the tokens.    *)
(* Scores are small naturals: only their order and their differences       *)
(* matter to the code.                                                     *)
(***************************************************************************)
EXTENDS Integers, Sequences, FiniteSets, TLC

VARIABLES
    modelUrl,   \* params.modelUrl given to the constructor
    loadPc,     \* position of the loadModel call: "metadata", "layers", "done"
    body,       \* the metadata body read by loadModel
    model,      \* this.model
    error,      \* this.error
    console,    \* what console.error has printed, in order
    call        \* the classify calls, one record per call

vars == <<modelUrl, loadPc, body, model, error, console, call>>

----------------------------------------------------------------------------
(* Bounds of the model *)

\* longest score vector and longest label list of the ranking inputs
MaxLen == 3
\* scores range over 0..MaxScore
MaxScore == 2

(* Program constants *)

\* classify: retryOperation(..., 1000, 20)
Delay == 1000
Retries == 20

Calls == {"c1", "c2"}

----------------------------------------------------------------------------
(* JavaScript values *)

Undefined == [t |-> "undefined"]
Str(s) == [t |-> "string", v |-> s]
Arr(s) == [t |-> "array", v |-> s]

\* a settled or pending promise returned by classify
Pending == [state |-> "pending", wrapped |-> FALSE, text |-> "", value |-> <<>>]
Fulfilled(v) == [state |-> "fulfilled", wrapped |-> FALSE, text |-> "", value |-> v]
\* Promise.reject({ error: e })
RejectedError(e) == [state |-> "rejected", wrapped |-> TRUE, text |-> e, value |-> <<>>]
\* reject(message), or an exception leaving classify: the bare value
RejectedBare(m) == [state |-> "rejected", wrapped |-> FALSE, text |-> m, value |-> <<>>]

----------------------------------------------------------------------------
(* String tests *)

\* /file:\/\/\//.test(s): the pattern is not anchored
TestFileUrl(s) == \E i \in DOMAIN s : s[i] = "file:///"

\* s.startsWith("data:image/")
StartsWithDataImage(s) == Len(s) > 0 /\ s[1] = "data:image/"

ImageExtensions == {"png", "jpg", "jpeg", "gif"}

\* isImageUrl(s) of the is-image-url package: an http(s) URL whose path ends
\* in an image extension
IsImageUrl(s) ==
    /\ Len(s) >= 3
    /\ s[1] \in {"http://", "https://"}
    /\ s[Len(s) - 1] = "."
    /\ s[Len(s)] \in ImageExtensions

\* (/png/).test(contentType)
TestPng(ct) == \E i \in DOMAIN ct : ct[i] = "png"

\* (/jpe?g/).test(contentType)
TestJpeg(ct) == \E i \in DOMAIN ct : ct[i] \in {"jpeg", "jpg"}

\* url.fileURLToPath(s) throws ERR_INVALID_URL_SCHEME unless the scheme of s
\* is file:
FileUrlToPathThrows(s) == Len(s) = 0 \/ s[1] # "file:///"

\* !modelUrl || modelUrl === ""
MissingModelUrl(u) == u = Undefined \/ u.v = <<>>

----------------------------------------------------------------------------
(* Inputs *)

\* a remote model URL takes the same steps as a file:/// one: its metadata
\* is fetched instead of read
ModelUrls ==
    { Undefined,
      Str(<<>>),
      Str(<<"file:///", "models", "/">>) }

\* metadata.json as read: json says whether JSON.parse accepts it, labels is
\* the value of its "labels" field
Bodies ==
    { [json |-> FALSE, labels |-> Undefined],
      [json |-> TRUE, labels |-> Undefined],
      [json |-> TRUE, labels |-> Arr(<<"a", "b">>)],
      [json |-> TRUE, labels |-> Arr(<<"a", "b", "c">>)] }

NoBody == [json |-> FALSE, labels |-> Undefined]

ImageUrls ==
    { <<"data:image/", "png", ";base64,", "iVBOR">>,
      <<"data:image/", "gif", ";base64,", "R0lG">>,
      <<"file:///", "tmp", "/", "cat", ".", "jpg">>,
      <<"https://", "host", "/", "dog", ".", "png">>,
      <<"ftp://", "host", "/", "readme">>,
      <<"data:image/", "png", ";name=", "file:///", ";base64,", "iVBOR">> }

\* Content-Type headers a server may send and mime types file-type may sniff
ContentTypes ==
    { <<"image/", "png">>,
      <<"image/", "jpeg">>,
      <<"image/", "gif">>,
      <<"image/", "png", ";name=", "cat", ".", "jpg">> }

\* the image URLs a call is made with: the second call of a pair is made
\* with an embedded image
ImageUrlsOf(c) ==
    IF c = "c1" THEN ImageUrls ELSE {u \in ImageUrls : u[1] = "data:image/"}

\* score vectors the loaded model produces: three output classes
ModelOutputs == { <<1, 2, 2>> }

Labels == {"a", "b", "c"}

\* the sequences over S of lo to n elements
SeqsUpTo(S, lo, n) == UNION {[1..k -> S] : k \in lo..n}

\* the inputs of the ranking: any label list, any score vector
LabelLists == SeqsUpTo(Labels, 0, MaxLen)
ScoreVectors == SeqsUpTo(0..MaxScore, 1, MaxLen)

\* mime types file-type recognises in a local file
SniffedTypes ==
    { <<"image/", "png">>, <<"image/", "jpeg">>, <<"image/", "gif">> }

----------------------------------------------------------------------------
(* getTopKClasses *)

Min(a, b) == IF a < b THEN a ELSE b

\* classes[i] with a JavaScript (0-based) index: undefined out of range
JsIndex(arr, i) == IF i + 1 \in DOMAIN arr THEN Str(arr[i + 1]) ELSE Undefined

\* a comparator that sorts ascending
CompareAscending(a, b) == a.value - b.value

\* the comparator handed to sort
Compare(a, b) == b.value - a.value

\* one insertion of a stable sort: x, the later element, goes behind every
\* element the comparator does not order after it
InsertSorted(s, x) ==
    LET k == Cardinality({i \in DOMAIN s : Compare(s[i], x) <= 0})
    IN  SubSeq(s, 1, k) \o <<x>> \o SubSeq(s, k + 1, Len(s))

RECURSIVE ArraySort(_)
\* Array.prototype.sort with Compare: a stable sort
ArraySort(s) ==
    IF s = <<>> THEN <<>>
    ELSE InsertSorted(ArraySort(SubSeq(s, 1, Len(s) - 1)), s[Len(s)])

GetTopKClasses(values, classes) ==
    LET topK == Min(Len(classes), Len(values))
        valuesAndIndices ==
            ArraySort([i \in 1..Len(values) |-> [value |-> values[i], index |-> i - 1]])
        topkValues == [i \in 1..topK |-> valuesAndIndices[i].value]
        topkIndices == [i \in 1..topK |-> valuesAndIndices[i].index]
    IN  [i \in 1..topK |->
            [class |-> JsIndex(classes, topkIndices[i]), score |-> topkValues[i]]]

----------------------------------------------------------------------------
(* The classify calls *)

Bitmap(codec) == [t |-> "bitmap", codec |-> codec]

\* a call that has not been made yet
NewCall ==
    [ pc          |-> "idle",   \* idle, stat, wait, io, png, jpeg, topk, done
      imageUrl    |-> <<>>,     \* params.imageUrl
      pathChecked |-> FALSE,    \* classify took its file:/// branch
      statResult  |-> "none",   \* what fs.stat gave: none, stats, ENOENT
      source      |-> "none",   \* the branch inference took: data, file, fetch
      times       |-> 0,        \* the times argument of the current retryOperation
      polls       |-> 0,        \* calls of checkModel made for this call
      waits       |-> 0,        \* calls of wait(delay) made for this call
      started     |-> 0,        \* calls of this.inference made for this call
      contentType |-> <<>>,
      codecs      |-> <<>>,     \* the PImage decoders invoked, in order
      imageBitmap |-> Undefined,
      predictArgs |-> <<>>,     \* the imgElement of every call of predict
      logits      |-> <<>>,     \* the values of the tensor model.predict returned
      result      |-> Pending ] \* the promise classify returned

Settle(r, res) == [r EXCEPT !.pc = "done", !.result = res]

\* a gate that lets every call through
CheckModelAlways(m) == TRUE

\* checkModel: resolves when this.model is set, rejects otherwise
CheckModel(m) == m # Undefined

\* a catch handler that gives up one poll early
RetryRemainingEarly(times) == times - 2 > 0

\* a catch handler that allows one poll more
RetryRemainingLate(times) == times > 0

\* retryOperation's catch handler: times - 1 > 0
RetryRemaining(times) == times - 1 > 0

\* parseDataUrl(imageUrl).contentType
DataUrlContentType(u) == <<"image/", u[2]>>

\* a predict whose tensor error lands in the catch handler of retryOperation
PredictRetried(r, tfOk, out) ==
    LET r1 == [r EXCEPT !.predictArgs = Append(@, r.imageBitmap)]
    IN  IF r.imageBitmap = Undefined
            THEN Settle(r1, RejectedError("TypeError: pixels is undefined"))
        ELSE IF ~tfOk
            THEN [r1 EXCEPT !.pc = "wait", !.waits = @ + 1]
        ELSE [r1 EXCEPT !.pc = "topk", !.logits = out]

\* predict up to its first await: tf.browser.fromPixels throws on a missing
\* image, otherwise the tensor operations run (tfOk) or throw
Predict(r, tfOk, out) ==
    LET r1 == [r EXCEPT !.predictArgs = Append(@, r.imageBitmap)]
    IN  IF r.imageBitmap = Undefined
            THEN Settle(r1, RejectedError("TypeError: pixels is undefined"))
        ELSE IF ~tfOk
            THEN Settle(r1, RejectedError("tensor error"))
        ELSE [r1 EXCEPT !.pc = "topk", !.logits = out]

\* inference from bufferToStream to the first await behind it
DecodeDispatch(r, ct) ==
    LET r1 == [r EXCEPT !.contentType = ct]
    IN  IF TestPng(ct)
            THEN [r1 EXCEPT !.pc = "png", !.codecs = Append(@, "png")]
        ELSE IF TestJpeg(ct)
            THEN [r1 EXCEPT !.pc = "jpeg", !.codecs = Append(@, "jpeg")]
        ELSE Predict(r1, TRUE, <<>>)

\* this.inference(params) up to its first await
Inference(r) ==
    LET r1 == [r EXCEPT !.started = @ + 1]
    IN  IF StartsWithDataImage(r.imageUrl)
            THEN DecodeDispatch([r1 EXCEPT !.source = "data"],
                                DataUrlContentType(r.imageUrl))
        ELSE IF TestFileUrl(r.imageUrl)
            THEN IF FileUrlToPathThrows(r.imageUrl)
                     THEN Settle([r1 EXCEPT !.source = "file"],
                                 RejectedError("TypeError [ERR_INVALID_URL_SCHEME]"))
                 ELSE [r1 EXCEPT !.pc = "io", !.source = "file"]
        ELSE [r1 EXCEPT !.pc = "io", !.source = "fetch"]

\* a retryOperation that does not reject when the polls are used up
RetryOperationSilent(r, m, times) ==
    LET r1 == [r EXCEPT !.times = times, !.polls = @ + 1]
    IN  IF CheckModel(m)
            THEN Inference(r1)
        ELSE IF RetryRemaining(times)
            THEN [r1 EXCEPT !.pc = "wait", !.waits = @ + 1]
        ELSE [r1 EXCEPT !.pc = "lost"]

\* retryOperation(operation, delay, times) up to its first timer or the thunk
RetryOperation(r, m, times) ==
    LET r1 == [r EXCEPT !.times = times, !.polls = @ + 1]
    IN  IF CheckModel(m)
            THEN Inference(r1)
        ELSE IF RetryRemaining(times)
            THEN [r1 EXCEPT !.pc = "wait", !.waits = @ + 1]
        ELSE Settle(r1, RejectedBare("Loading model"))

\* classify without the check of this.error
GateWithoutError(r, e, m) == RetryOperation(r, m, Retries)

\* classify behind the checks of the image URL
GateOnError(r, e, m) ==
    IF e # Undefined
        THEN Settle(r, RejectedError(e.v))
    ELSE RetryOperation(r, m, Retries)

\* a classify that looks at this.error before it looks at the image URL
ClassifyErrorFirst(c, u) ==
    /\ call[c].pc = "idle"
    /\ LET r == [call[c] EXCEPT !.imageUrl = u]
       IN  call' = [call EXCEPT ![c] =
              IF error # Undefined
                  THEN Settle(r, RejectedError(error.v))
              ELSE IF ~TestFileUrl(u) /\ ~StartsWithDataImage(u) /\ ~IsImageUrl(u)
                  THEN Settle(r, RejectedError("Image URL is not valid!"))
              ELSE IF TestFileUrl(u)
                  THEN [r EXCEPT !.pc = "stat", !.pathChecked = TRUE]
              ELSE RetryOperation(r, model, Retries)]
    /\ UNCHANGED <<modelUrl, loadPc, body, model, error, console>>

\* classify(params) up to its first await
Classify(c, u) ==
    /\ call[c].pc = "idle"
    /\ LET r == [call[c] EXCEPT !.imageUrl = u]
       IN  call' = [call EXCEPT ![c] =
              IF ~TestFileUrl(u) /\ ~StartsWithDataImage(u) /\ ~IsImageUrl(u)
                  THEN Settle(r, RejectedError("Image URL is not valid!"))
              ELSE IF TestFileUrl(u)
                  THEN IF FileUrlToPathThrows(u)
                           THEN Settle([r EXCEPT !.pathChecked = TRUE],
                                       RejectedBare("TypeError [ERR_INVALID_URL_SCHEME]"))
                       ELSE [r EXCEPT !.pc = "stat", !.pathChecked = TRUE]
              ELSE GateOnError(r, error, model)]
    /\ UNCHANGED <<modelUrl, loadPc, body, model, error, console>>

\* a classify that goes on when fs.stat found no file
StatDoneIgnored(c, exists) ==
    /\ call[c].pc = "stat"
    /\ call' = [call EXCEPT ![c] =
          GateOnError([@ EXCEPT !.statResult = IF exists THEN "stats" ELSE "ENOENT"],
                      error, model)]
    /\ UNCHANGED <<modelUrl, loadPc, body, model, error, console>>

\* classify behind await fs.stat: stat rejects when the file does not exist
StatDone(c, exists) ==
    /\ call[c].pc = "stat"
    /\ call' = [call EXCEPT ![c] =
          IF ~exists
              THEN Settle([@ EXCEPT !.statResult = "ENOENT"], RejectedBare("ENOENT"))
          ELSE GateOnError([@ EXCEPT !.statResult = "stats"], error, model)]
    /\ UNCHANGED <<modelUrl, loadPc, body, model, error, console>>

\* a timer that counts down one budget shared by all waiting calls
WaitDoneShared(c) ==
    /\ call[c].pc = "wait"
    /\ call' = [d \in Calls |->
          IF d = c THEN RetryOperation(call[d], model, call[d].times - 1)
          ELSE IF call[d].pc = "wait" THEN [call[d] EXCEPT !.times = @ - 1]
          ELSE call[d]]
    /\ UNCHANGED <<modelUrl, loadPc, body, model, error, console>>

\* the timer of wait(delay) fires: retryOperation with times - 1
WaitDone(c) ==
    /\ call[c].pc = "wait"
    /\ call' = [call EXCEPT ![c] = RetryOperation(@, model, @.times - 1)]
    /\ UNCHANGED <<modelUrl, loadPc, body, model, error, console>>

\* inference behind fs.readFile and fType.fromBuffer, or fetch and buffer()
\* ok: the read or fetch succeeded; ct: the sniffed or declared type;
\* sniffed: file-type recognised the bytes
IoDone(c, ok, ct, sniffed) ==
    /\ call[c].pc = "io"
    /\ call[c].source = "file" => ct \in SniffedTypes
    /\ call' = [call EXCEPT ![c] =
          IF ~ok
              THEN Settle(@, RejectedError("I/O error"))
          ELSE IF @.source = "file" /\ ~sniffed
              THEN Settle(@, RejectedError("TypeError: contentTypeRaw is undefined"))
          ELSE DecodeDispatch(@, ct)]
    /\ UNCHANGED <<modelUrl, loadPc, body, model, error, console>>

\* inference behind await PImage.decodePNGFromStream
PngDone(c, ok, tfOk, out) ==
    /\ call[c].pc = "png"
    /\ call' = [call EXCEPT ![c] =
          IF ~ok
              THEN Settle(@, RejectedError("PNG decode error"))
          ELSE LET r1 == [@ EXCEPT !.imageBitmap = Bitmap("png")]
               IN  IF TestJpeg(r1.contentType)
                       THEN [r1 EXCEPT !.pc = "jpeg", !.codecs = Append(@, "jpeg")]
                   ELSE Predict(r1, tfOk, out)]
    /\ UNCHANGED <<modelUrl, loadPc, body, model, error, console>>

\* inference behind await PImage.decodeJPEGFromStream
JpegDone(c, ok, tfOk, out) ==
    /\ call[c].pc = "jpeg"
    /\ call' = [call EXCEPT ![c] =
          IF ~ok
              THEN Settle(@, RejectedError("JPEG decode error"))
          ELSE Predict([@ EXCEPT !.imageBitmap = Bitmap("jpeg")], tfOk, out)]
    /\ UNCHANGED <<modelUrl, loadPc, body, model, error, console>>

\* predict behind await logits.data(): getTopKClasses(logits, model.classes)
TopK(c) ==
    /\ call[c].pc = "topk"
    /\ call' = [call EXCEPT ![c] =
          IF model.classes = Undefined
              THEN Settle(@, RejectedError("TypeError: classes is undefined"))
          ELSE Settle(@, Fulfilled(GetTopKClasses(@.logits, model.classes.v)))]
    /\ UNCHANGED <<modelUrl, loadPc, body, model, error, console>>

----------------------------------------------------------------------------
(* Loading the model *)

\* the catch block of loadModel
LoadCatch ==
    /\ console' = Append(console, "Error for loading model")
    /\ loadPc' = "done"

\* loadModel behind await fs.readFile / fetch and response.text()
LoadMetadata(ok, b) ==
    /\ loadPc = "metadata"
    /\ IF ok
          THEN body' = b /\ loadPc' = "layers" /\ UNCHANGED console
       ELSE LoadCatch /\ UNCHANGED body
    /\ UNCHANGED <<modelUrl, model, error, call>>

\* loadModel behind await tf.loadLayersModel
LoadLayers(ok) ==
    /\ loadPc = "layers"
    /\ IF ~ok
          THEN LoadCatch /\ UNCHANGED model
       ELSE IF ~body.json
          THEN LoadCatch /\ model' = [t |-> "model", classes |-> Undefined]
       ELSE /\ model' = [t |-> "model", classes |-> body.labels]
            /\ loadPc' = "done"
            /\ UNCHANGED console
    /\ UNCHANGED <<modelUrl, body, error, call>>

----------------------------------------------------------------------------
(* The pipeline *)

\* new SashiDoTeachableMachine(params): the constructor has returned
Init ==
    /\ modelUrl \in ModelUrls
    /\ body = NoBody
    /\ model = Undefined
    /\ call = [c \in Calls |-> NewCall]
    /\ IF MissingModelUrl(modelUrl)
          THEN /\ error = Str("Missing model URL!")
               /\ console = <<"Missing model URL!">>
               /\ loadPc = "done"
       ELSE /\ error = Undefined
            /\ console = <<>>
            /\ loadPc = "metadata"

Next ==
    \/ \E ok \in BOOLEAN, b \in Bodies : LoadMetadata(ok, b)
    \/ \E ok \in BOOLEAN : LoadLayers(ok)
    \/ \E c \in Calls : \E u \in ImageUrlsOf(c) : Classify(c, u)
    \/ \E c \in Calls, exists \in BOOLEAN : StatDone(c, exists)
    \/ \E c \in Calls : WaitDone(c)
    \/ \E c \in Calls, ok \in BOOLEAN, ct \in ContentTypes, sniffed \in BOOLEAN :
          IoDone(c, ok, ct, sniffed)
    \/ \E c \in Calls, ok \in BOOLEAN, tfOk \in BOOLEAN, out \in ModelOutputs :
          PngDone(c, ok, tfOk, out)
    \/ \E c \in Calls, ok \in BOOLEAN, tfOk \in BOOLEAN, out \in ModelOutputs :
          JpegDone(c, ok, tfOk, out)
    \/ \E c \in Calls : TopK(c)

Spec == Init /\ [][Next]_vars

TypeOK ==
    /\ loadPc \in {"metadata", "layers", "done"}
    /\ \A c \in Calls :
          call[c].pc \in {"idle", "stat", "wait", "io", "png", "jpeg", "topk", "done"}

----------------------------------------------------------------------------
(* One call whose timers fire and whose reads, fetches, decoders and       *)
(* tensor operations come back; loadModel may never finish                 *)

\* the steps of call c behind a timer or an await
CallStep(c) ==
    \/ \E exists \in BOOLEAN : StatDone(c, exists)
    \/ WaitDone(c)
    \/ \E ok \in BOOLEAN, ct \in ContentTypes, sniffed \in BOOLEAN :
          IoDone(c, ok, ct, sniffed)
    \/ \E ok \in BOOLEAN, tfOk \in BOOLEAN, out \in ModelOutputs :
          PngDone(c, ok, tfOk, out)
    \/ \E ok \in BOOLEAN, tfOk \in BOOLEAN, out \in ModelOutputs :
          JpegDone(c, ok, tfOk, out)
    \/ TopK(c)

NextLive ==
    \/ \E ok \in BOOLEAN, b \in Bodies : LoadMetadata(ok, b)
    \/ \E ok \in BOOLEAN : LoadLayers(ok)
    \/ \E u \in ImageUrls : Classify("c1", u)
    \/ CallStep("c1")

SpecLive == Init /\ [][NextLive]_vars /\ WF_vars(CallStep("c1"))

----------------------------------------------------------------------------
(* The ranking on its own: a loaded model with any label list, and a call  *)
(* that waits for the values of any score vector                           *)

AwaitingScores(values) ==
    [ NewCall EXCEPT
        !.pc = "topk",
        !.imageUrl = <<"data:image/", "png", ";base64,", "iVBOR">>,
        !.times = Retries,
        !.polls = 1,
        !.started = 1,
        !.source = "data",
        !.contentType = <<"image/", "png">>,
        !.codecs = <<"png">>,
        !.imageBitmap = Bitmap("png"),
        !.predictArgs = <<Bitmap("png")>>,
        !.logits = values ]

InitRank ==
    /\ modelUrl = Str(<<"file:///", "models", "/">>)
    /\ loadPc = "done"
    /\ error = Undefined
    /\ console = <<>>
    /\ \E classes \in LabelLists :
          /\ body = [json |-> TRUE, labels |-> Arr(classes)]
          /\ model = [t |-> "model", classes |-> Arr(classes)]
    /\ \E values \in ScoreVectors :
          call = [c \in Calls |-> IF c = "c1" THEN AwaitingScores(values) ELSE NewCall]

NextRank == \E c \in Calls : TopK(c)

SpecRank == InitRank /\ [][NextRank]_vars

----------------------------------------------------------------------------
(* Properties *)

\* the catch block of loadModel has run
LoadThrew == \E i \in DOMAIN console : console[i] = "Error for loading model"

\* the state of the model handle as classify observes it
HandleState ==
    IF error # Undefined THEN "failed"
    ELSE IF model # Undefined THEN "ready"
    ELSE "loading"

Timeout == RejectedBare("Loading model")

\* the image URL of the call did not pass the checks of classify
InvalidInput(r) ==
    r.result \in { RejectedError("Image URL is not valid!"),
                   RejectedBare("TypeError [ERR_INVALID_URL_SCHEME]"),
                   RejectedBare("ENOENT") }

\* call c observes the model handle in this step: it leaves the checks of
\* its image URL, or its timer fires
Observes(c) ==
    /\ call[c].pc \in {"idle", "stat", "wait"}
    /\ call'[c] # call[c]
    /\ call'[c].pc # "stat"
    /\ ~InvalidInput(call'[c])

\* call c calls checkModel in this step
Polls(c) == call'[c].polls = call[c].polls + 1

\* the time call r has spent in wait(delay)
Elapsed(r) == r.waits * Delay

\* C1: once loadModel has failed with an I/O, parse or runtime error, a
\* classify call with a valid image URL fails with the stored load error the
\* first time it observes the handle, without a retry wait
C1_LoadFailureShortCircuits ==
    [][\A c \in Calls :
          (LoadThrew /\ Observes(c)) =>
              /\ call'[c].pc = "done"
              /\ call'[c].result.state = "rejected"
              /\ error' # Undefined
              /\ call'[c].result.text = error'.v
              /\ call'[c].waits = call[c].waits]_vars

\* C2: a call whose N-th poll (1 <= N <= Retries) finds the model set starts
\* inference there, after exactly N-1 waits of Delay; a poll that finds the
\* model still loading before the budget is used up waits and never fails
C2_ReadyAtNthPoll ==
    [][\A c \in Calls :
          Polls(c) =>
              /\ call'[c].polls \in 1..Retries
              /\ model # Undefined =>
                    /\ call'[c].started = 1
                    /\ call'[c].result # Timeout
                    /\ call'[c].waits = call'[c].polls - 1
                    /\ Elapsed(call'[c]) = (call'[c].polls - 1) * Delay
              /\ (model = Undefined /\ call'[c].polls < Retries) =>
                    /\ call'[c].pc = "wait"
                    /\ call'[c].waits = call'[c].polls]_vars

\* a call started inference at its last possible poll
C2_Witness ==
    \E c \in Calls :
        /\ call[c].started = 1
        /\ call[c].polls = Retries
        /\ call[c].waits = Retries - 1

\* C3: a call fails with "Loading model" exactly when Retries polls have all
\* found the model missing; it has then waited Retries - 1 times and never
\* started inference
C3_TimeoutAtExhaustion ==
    \A c \in Calls :
        /\ call[c].result = Timeout =>
              /\ call[c].polls = Retries
              /\ call[c].waits = Retries - 1
              /\ call[c].started = 0
              /\ call[c].predictArgs = <<>>
        /\ (call[c].polls = Retries /\ call[c].started = 0) =>
              (call[c].pc = "done" /\ call[c].result = Timeout)
        /\ call[c].pc = "wait" => call[c].polls < Retries

C3_Witness ==
    \E c \in Calls : call[c].pc = "done" /\ call[c].result = Timeout

\* C4: without a modelUrl the handle is failed from construction on, and a
\* call with a valid image URL fails with "Missing model URL!" without a
\* poll, a wait or inference
C4_MissingModelUrlIsPermanent ==
    MissingModelUrl(modelUrl) =>
        /\ error = Str("Missing model URL!")
        /\ model = Undefined
        /\ loadPc = "done"
        /\ \A c \in Calls :
              /\ call[c].polls = 0
              /\ call[c].waits = 0
              /\ call[c].started = 0
              /\ call[c].predictArgs = <<>>
              /\ call[c].pc \in {"idle", "stat", "done"}
              /\ (call[c].pc = "done" /\ ~InvalidInput(call[c])) =>
                    call[c].result = RejectedError("Missing model URL!")

C4_Witness ==
    /\ MissingModelUrl(modelUrl)
    /\ \E c \in Calls :
          /\ TestFileUrl(call[c].imageUrl)
          /\ call[c].result = RejectedError("Missing model URL!")

\* C5: a call starts inference only in a step in which the model is set and
\* no error is stored
C5_InferenceOnlyWhenReady ==
    [][\A c \in Calls :
          call'[c].started > call[c].started =>
              (model # Undefined /\ error = Undefined /\ HandleState = "ready")]_vars

\* inference of one call is in flight while the other call still waits
C5_Witness ==
    \E c, d \in Calls :
        /\ call[c].started = 1
        /\ call[c].pc = "png"
        /\ call[c].polls > 1
        /\ call[d].pc = "wait"

\* C6: whenever the model is set, so that checkModel resolves, it carries
\* the label list of the metadata, and loadModel has not failed
C6_ReadyHandleHasLabels ==
    model # Undefined =>
        /\ model.classes # Undefined
        /\ model.classes = body.labels
        /\ ~LoadThrew

\* C7: the handle leaves "loading" exactly once: a finished loadModel has
\* left it ready or failed, it never changes afterwards, loadModel does not
\* run again, and the model and the error are never both set
C7_HandleChangesExactlyOnce ==
    [][/\ HandleState # "loading" => HandleState' = HandleState
       /\ loadPc = "done" => loadPc' = "done"
       /\ loadPc' = "done" => HandleState' # "loading"
       /\ ~(model' # Undefined /\ error' # Undefined)]_vars

\* C10: predict is never called without a bitmap: a content type that is
\* neither PNG nor JPEG fails the call before predict
C10_NoPredictWithoutBitmap ==
    \A c \in Calls :
        \A i \in DOMAIN call[c].predictArgs : call[c].predictArgs[i] # Undefined

\* C11: a call invokes at most one decoder: a type that says PNG goes to
\* the PNG decoder only, a type that says JPEG to the JPEG decoder only
C11_OneCodecPerCall ==
    \A c \in Calls :
        /\ Len(call[c].codecs) <= 1
        /\ \A i \in DOMAIN call[c].codecs :
              /\ call[c].codecs[i] = "png" => TestPng(call[c].contentType)
              /\ call[c].codecs[i] = "jpeg" =>
                    (TestJpeg(call[c].contentType) /\ ~TestPng(call[c].contentType))

\* C12: every image URL is treated as one variant throughout: classify
\* applies its file:/// check to exactly the URLs inference reads from the
\* file system, an embedded image never reaches the path check, and a
\* fetched URL has passed isImageUrl
C12_OneVariantPerLocator ==
    \A c \in Calls :
        call[c].pc # "idle" =>
            /\ StartsWithDataImage(call[c].imageUrl) => ~call[c].pathChecked
            /\ call[c].source = "file" => call[c].pathChecked
            /\ call[c].source = "data" =>
                  (~call[c].pathChecked /\ StartsWithDataImage(call[c].imageUrl))
            /\ call[c].source = "fetch" =>
                  (~call[c].pathChecked /\ IsImageUrl(call[c].imageUrl))

\* classify has not touched the model, the image or the decoders for r
Untouched(r) ==
    /\ r.polls = 0
    /\ r.waits = 0
    /\ r.started = 0
    /\ r.source = "none"
    /\ r.codecs = <<>>
    /\ r.predictArgs = <<>>

\* none of the three tests of classify accepts u
NoVariant(u) == ~TestFileUrl(u) /\ ~StartsWithDataImage(u) /\ ~IsImageUrl(u)

\* C13: a call whose image URL is no variant, or whose local file does not
\* exist, is rejected for its input before any poll, wait, read, fetch,
\* decoder or inference, whatever the handle holds
C13_InvalidInputFailsFast ==
    \A c \in Calls :
        /\ (call[c].pc # "idle" /\ NoVariant(call[c].imageUrl)) =>
              /\ call[c].pc = "done"
              /\ call[c].result = RejectedError("Image URL is not valid!")
              /\ Untouched(call[c])
        /\ call[c].statResult = "ENOENT" =>
              /\ call[c].pc = "done"
              /\ call[c].result = RejectedBare("ENOENT")
              /\ Untouched(call[c])

\* a missing local file is rejected although the model is loaded
C13_Witness ==
    \E c \in Calls :
        /\ model # Undefined
        /\ call[c].statResult = "ENOENT"
        /\ call[c].pc = "done"

\* C14: a step of one call changes neither another call nor the handle; the
\* k-th poll of every call runs with times = Retries - k + 1 whatever the
\* other calls did, and finds the model if it is set then
C14_CallsGatedIndependently ==
    [][\A c \in Calls :
          call'[c] # call[c] =>
              /\ \A d \in Calls \ {c} : call'[d] = call[d]
              /\ model' = model
              /\ error' = error
              /\ Polls(c) => call'[c].times = Retries - call'[c].polls + 1
              /\ (Polls(c) /\ model # Undefined) => call'[c].started = 1]_vars

\* one call has timed out, the other has waited and returned a ranking
C14_Witness ==
    \E c, d \in Calls :
        /\ call[c].result = Timeout
        /\ call[d].polls > 1
        /\ call[d].pc = "done"
        /\ call[d].result.state = "fulfilled"

\* C15: a call never waits more than Retries times, and every call made is
\* settled in the end, whether loadModel finishes or not
C15_EveryCallSettles ==
    /\ [](\A c \in Calls : call[c].waits <= Retries)
    /\ \A c \in Calls : (call[c].pc # "idle") ~> (call[c].pc = "done")

\* a call is settled after it has used all its polls
C15_Witness ==
    \E c \in Calls :
        /\ call[c].pc = "done"
        /\ call[c].polls = Retries
        /\ call[c].waits = Retries - 1

\* C16: a call starts inference at most once; once started it polls and
\* waits no more, and a failure of inference rejects the call with
\* { error }
C16_InferenceAtMostOnce ==
    [][\A c \in Calls :
          /\ call'[c].started <= 1
          /\ call[c].started >= 1 =>
                /\ call'[c].started = call[c].started
                /\ call'[c].polls = call[c].polls
                /\ call'[c].waits = call[c].waits
                /\ call'[c].pc \in {"io", "png", "jpeg", "topk", "done"}
                /\ call'[c].result.state = "rejected" => call'[c].result.wrapped]_vars

\* the tensor operations of a call failed after the call had waited
C16_Witness ==
    \E c \in Calls :
        /\ call[c].started = 1
        /\ call[c].waits > 0
        /\ call[c].pc = "done"
        /\ call[c].result = RejectedError("tensor error")

\* C17: the image URL is checked before this.error: without a modelUrl, a
\* call with a bad image URL or a missing local file is rejected for its
\* input, and "Missing model URL!" is the answer only to a URL that passed
C17_ValidationBeforeModelError ==
    MissingModelUrl(modelUrl) =>
        \A c \in Calls :
            /\ (call[c].pc # "idle" /\ NoVariant(call[c].imageUrl)) =>
                  call[c].result = RejectedError("Image URL is not valid!")
            /\ call[c].statResult = "ENOENT" => call[c].result = RejectedBare("ENOENT")
            /\ call[c].result = RejectedError("Missing model URL!") =>
                  /\ ~NoVariant(call[c].imageUrl)
                  /\ call[c].pathChecked => call[c].statResult = "stats"

C17_Witness ==
    /\ MissingModelUrl(modelUrl)
    /\ \E c, d \in Calls :
          /\ call[c].result = RejectedError("Image URL is not valid!")
          /\ call[d].result = RejectedError("Missing model URL!")

----------------------------------------------------------------------------
(* Properties of the ranking *)

\* the call has returned a ranking
Ranked(c) == call[c].pc = "done" /\ call[c].result.state = "fulfilled"

\* p lists the positions of values by value descending, equal values by
\* position ascending
RankOrder(values, p) ==
    /\ \A i, j \in DOMAIN p : i # j => p[i] # p[j]
    /\ \A i, j \in DOMAIN p :
          i < j => \/ values[p[i]] > values[p[j]]
                   \/ (values[p[i]] = values[p[j]] /\ p[i] < p[j])

\* C8: with as many labels as scores, the ranking is the scores sorted
\* descending, ties by index ascending, each with the label of its index:
\* a permutation of the input with a highest score first
C8_RankSortsDescendingStable ==
    \A c \in Calls :
        (Ranked(c) /\ Len(model.classes.v) = Len(call[c].logits)) =>
            LET values == call[c].logits
                classes == model.classes.v
                out == call[c].result.value
                n == Len(values)
            IN  /\ Len(out) = n
                /\ \A i \in 1..n : out[1].score >= values[i]
                /\ \E p \in [1..n -> 1..n] :
                      /\ RankOrder(values, p)
                      /\ \A i \in 1..n :
                            out[i] = [class |-> Str(classes[p[i]]), score |-> values[p[i]]]

\* a ranking of scores with a tie that is not the input order reversed
C8_Witness ==
    \E c \in Calls :
        /\ Ranked(c)
        /\ call[c].logits = <<1, 2, 2>>
        /\ model.classes.v = <<"a", "b", "c">>
        /\ call[c].result.value =
              << [class |-> Str("b"), score |-> 2],
                 [class |-> Str("c"), score |-> 2],
                 [class |-> Str("a"), score |-> 1] >>

\* C9: with fewer labels than scores, the ranking has at most as many
\* entries as labels and every entry carries a label of the list
C9_RankNeverLeavesLabels ==
    \A c \in Calls :
        (Ranked(c) /\ Len(model.classes.v) < Len(call[c].logits)) =>
            LET classes == model.classes.v
                out == call[c].result.value
            IN  /\ Len(out) <= Min(Len(classes), Len(call[c].logits))
                /\ \A i \in DOMAIN out :
                      /\ out[i].class # Undefined
                      /\ \E k \in DOMAIN classes : out[i].class = Str(classes[k])

============================================================================
